---- MODULE Spec2Model ----
(***************************************************************************)
(* Model of server.py: the Flask chat backend.  The state is the users     *)
(* file (users.json), the process-wide conversation_history list, the      *)
(* signed-cookie session of each browser, and the chat request that is in  *)
(* flight.  Requests are served one at a time (spec section 5): a new      *)
(* request starts only when the response to the one before has been sent.  *)
(***************************************************************************)
EXTENDS Integers, Sequences, FiniteSets, TLC

VARIABLES
    users_file,            \* contents of USERS_FILE, the JSON document
    conversation_history,  \* the module-level list of {role, content} dicts
    session,               \* session[s]: the Flask session of browser s
    req,                   \* the chat request in flight and its phase
    resp,                  \* the response being returned to a client, if any
    streak,                \* the run of api_new_chat calls a browser has just made
    written,               \* written[u][i]: what chat/create last wrote to conversation i-1 of u
    nchats,                \* nchats[u][i]: chat operations persisted into conversation i-1 of u
    budget,                \* chat requests accepted so far
    handler                \* handler[s]: the request of browser s served concurrently

vars == <<users_file, conversation_history, session, req, resp, streak,
          written, nchats, budget, handler>>

----------------------------------------------------------------------------
(* Bounds of the model *)

MaxConvs == 2     \* conversations in the users file
MaxChats == 2     \* chat requests that pass the empty-content check

----------------------------------------------------------------------------
(* Values *)

Sessions == {"s1", "s2"}
Usernames == {"admin", "bob"}
AdminPassword == "admin"  \* password of the account ensure_admin_user creates
Passwords == {"admin", "pw"}
None == "None"            \* absent username / role key of a session
Unset == -1               \* session["current_conversation"] is None or absent

IsWhitespace(c) == c \in {" ", "\n"}

RECURSIVE LStrip(_)
LStrip(str) ==
    IF str # <<>> /\ IsWhitespace(Head(str)) THEN LStrip(Tail(str)) ELSE str

RECURSIVE RStrip(_)
RStrip(str) ==
    IF str # <<>> /\ IsWhitespace(str[Len(str)])
    THEN RStrip(SubSeq(str, 1, Len(str) - 1)) ELSE str

\* str.strip(): a text is a sequence of characters
Strip(str) == RStrip(LStrip(str))

\* The chat payloads the clients send: message text and attachment names
ChatMessages == { <<>>, <<" ">>, <<" ", "h", "\n", "w", " ">> }
ChatAttachments == { <<>>, <<"f">> }
ChatPayloads == { p \in ChatMessages \X ChatAttachments : p[1] = <<>> \/ p[2] = <<>> }

SystemPrompt == <<"Eres un asistente servicial.">>
NoContent == <<"No se recibio contenido del servicio LLM.">>

\* Outcomes of the upstream calls: a reply body, or the exception raised
PrimaryReplies == { [ok |-> TRUE, content |-> <<"r">>, err |-> "" ],
                    [ok |-> FALSE, content |-> <<>>, err |-> "primary_down"] }
LegacyReplies == { [ok |-> TRUE, message |-> <<"r">>, choice |-> <<>>, err |-> ""],
                   [ok |-> TRUE, message |-> <<>>, choice |-> <<"r">>, err |-> ""],
                   [ok |-> FALSE, message |-> <<>>, choice |-> <<>>, err |-> "legacy_down"] }

Turn(role, content) == [role |-> role, content |-> content]

----------------------------------------------------------------------------
(* The users file *)

generate_password_hash(password) == <<"hash", password>>
check_password_hash(hash, password) == hash = <<"hash", password>>

\* json.dump of the list of user records: each dict becomes a document object,
\* written here as the tuple of its values in key order
DumpMessage(m) == <<m.role, m.content>>
DumpConversation(c) == << [i \in 1..Len(c.messages) |-> DumpMessage(c.messages[i])] >>
DumpUser(u) == <<u.username, u.password_hash, u.role,
                 [i \in 1..Len(u.conversations) |-> DumpConversation(u.conversations[i])]>>
json_dump(users) == [i \in 1..Len(users) |-> DumpUser(users[i])]

\* json.load: the document objects back to dicts
LoadMessage(d) == [role |-> d[1], content |-> d[2]]
\* a load that loses the last message of each conversation
LoadConversationShort(d) ==
    [messages |-> [i \in 1..(Len(d[1]) - 1) |-> LoadMessage(d[1][i])]]
LoadConversation(d) == [messages |-> [i \in 1..Len(d[1]) |-> LoadMessage(d[1][i])]]
LoadUser(d) == [username |-> d[1], password_hash |-> d[2], role |-> d[3],
                conversations |-> [i \in 1..Len(d[4]) |-> LoadConversation(d[4][i])]]
json_load(doc) == [i \in 1..Len(doc) |-> LoadUser(doc[i])]

load_users == json_load(users_file)

save_users(users) == json_dump(users)

HasUser(username) == \E i \in 1..Len(load_users) : load_users[i].username = username

\* get_user: the first record with the username (None when HasUser is false)
get_user(username) ==
    LET users == load_users
        i == CHOOSE i \in 1..Len(users) :
                /\ users[i].username = username
                /\ \A j \in 1..(i - 1) : users[j].username # username
    IN users[i]

\* the first record of the list replaced, whatever its username
UpdatedUsersFirst(users, updated_user) == [users EXCEPT ![1] = updated_user]
\* update_user, lines 108-115: the list with the record replaced or appended
UpdatedUsers(users, updated_user) ==
    LET hits == {i \in 1..Len(users) : users[i].username = updated_user.username}
    IN IF hits # {}
       THEN LET idx == CHOOSE i \in hits : \A j \in hits : i <= j
            IN [users EXCEPT ![idx] = updated_user]
       ELSE Append(users, updated_user)

\* a write that appends the record even when the username is in the list
update_user_append(updated_user) == save_users(Append(load_users, updated_user))
\* update_user: the new contents of the file
update_user(updated_user) == save_users(UpdatedUsers(load_users, updated_user))

\* the number of conversations of all the records
RECURSIVE TotalConvs(_)
TotalConvs(users) ==
    IF users = <<>> THEN 0
    ELSE Len(Head(users).conversations) + TotalConvs(Tail(users))

----------------------------------------------------------------------------
(* Sessions, responses and the request in flight *)

NoSession == [username |-> None, role |-> None, current_conversation |-> Unset]

\* no check of the session at all
LoggedInAlways(s) == TRUE
\* session.get("username") is truthy
LoggedIn(s) == session[s].username # None

\* calls lists the upstream endpoints the request has contacted so far,
\* replies what they answered
IdleReq == [phase |-> "IDLE", sess |-> "s1", first_error |-> "", error |-> "",
            assistant_content |-> <<>>, calls |-> <<>>, replies |-> <<>>]

\* No request is being served
Idle == req.phase = "IDLE" /\ resp.op = "none"

\* A response: the handler, the browser, the HTTP status and the JSON payload.
\* calls and replies list the upstream paths list_models contacted and what
\* each of them answered.
Response(op, s, status) ==
    [op |-> op, sess |-> s, status |-> status, error |-> "", arg |-> Unset,
     id |-> Unset, messages |-> <<>>, message |-> <<>>, conversations |-> <<>>,
     models |-> <<>>, calls |-> <<>>, replies |-> <<>>]

NoResp == Response("none", "s1", 0)

\* No handler is running for the browser.  A running handler keeps its local
\* variables here: seen (the document get_user read), user (the dict get_user
\* returned, as the handler has changed it), users (the list update_user
\* loaded) and id (the index the handler works on and returns).
NoUser == [username |-> None, password_hash |-> <<>>, role |-> None,
           conversations |-> <<>>]
NoHandler == [pc |-> "idle", op |-> "none", seen |-> <<>>, user |-> NoUser,
              users |-> <<>>, id |-> Unset]
NoStreak == [sess |-> "s1", n |-> 0, first |-> Unset, second |-> Unset]

\* Return r to the client.  streak records the successful api_new_chat calls one
\* browser made in a row (n of them, at most the last two ids); reloading one of
\* the two conversations keeps the record, any other request ends it.
Reply(r) ==
    /\ resp' = r
    /\ streak' =
         IF r.op = "create" /\ r.status = 200
         THEN IF streak.n > 0 /\ streak.sess = r.sess
              THEN [sess |-> r.sess, n |-> 2, first |-> streak.second, second |-> r.id]
              ELSE [sess |-> r.sess, n |-> 1, first |-> Unset, second |-> r.id]
         ELSE IF /\ r.op = "select" /\ r.status = 200 /\ streak.n = 2
                 /\ r.sess = streak.sess /\ r.arg \in {streak.first, streak.second}
         THEN streak
         ELSE NoStreak

\* The client has the response
receive ==
    /\ resp.op # "none"
    /\ resp' = NoResp
    /\ UNCHANGED <<users_file, conversation_history, session, req, streak, written,
                   nchats, budget, handler>>

\* seq with position idx set to val, grown to length n with dflt
SetAt(seq, n, idx, val, dflt) ==
    [i \in 1..n |-> IF i = idx THEN val
                    ELSE IF i <= Len(seq) THEN seq[i] ELSE dflt]

Init ==
    /\ users_file = save_users(<< [username |-> "admin",
                                   password_hash |-> generate_password_hash(AdminPassword),
                                   role |-> "admin",
                                   conversations |-> <<>>] >>)
    /\ conversation_history = <<>>
    /\ session = [s \in Sessions |-> NoSession]
    /\ req = IdleReq
    /\ resp = NoResp
    /\ streak = NoStreak
    /\ written = [u \in Usernames |-> <<>>]
    /\ nchats = [u \in Usernames |-> <<>>]
    /\ budget = 0
    /\ handler = [s \in Sessions |-> NoHandler]

----------------------------------------------------------------------------
(* Authentication and user management *)

login(s, username, password) ==
    /\ Idle
    /\ IF /\ HasUser(username)
          /\ check_password_hash(get_user(username).password_hash, password)
       THEN /\ session' = [session EXCEPT ![s] =
                              [username |-> username,
                               role |-> get_user(username).role,
                               current_conversation |-> Unset]]
            /\ Reply(Response("login", s, 302))
       ELSE /\ Reply([Response("login", s, 401) EXCEPT !.error = "Credenciales incorrectas"])
            /\ UNCHANGED session
    /\ UNCHANGED <<users_file, conversation_history, req, written, nchats, budget, handler>>

register(username, password, confirm) ==
    /\ Idle
    /\ IF username = "" \/ password = ""
       THEN /\ Reply([Response("register", "s1", 200) EXCEPT !.error = "obligatorios"])
            /\ UNCHANGED <<users_file, written, nchats>>
       ELSE IF password # confirm
       THEN /\ Reply([Response("register", "s1", 200) EXCEPT !.error = "no coinciden"])
            /\ UNCHANGED <<users_file, written, nchats>>
       ELSE IF HasUser(username)
       THEN /\ Reply([Response("register", "s1", 200) EXCEPT !.error = "ya existe"])
            /\ UNCHANGED <<users_file, written, nchats>>
       ELSE /\ users_file' = save_users(Append(load_users,
                                 [username |-> username,
                                  password_hash |-> generate_password_hash(password),
                                  role |-> "user",
                                  conversations |-> <<>>]))
            /\ written' = [written EXCEPT ![username] = <<>>]
            /\ nchats' = [nchats EXCEPT ![username] = <<>>]
            /\ Reply(Response("register", "s1", 302))
    /\ UNCHANGED <<conversation_history, session, req, budget, handler>>

logout(s) ==
    /\ Idle
    /\ session' = [session EXCEPT ![s] = NoSession]
    /\ Reply(Response("logout", s, 302))
    /\ UNCHANGED <<users_file, conversation_history, req, written, nchats, budget, handler>>

delete_user(s, username) ==
    /\ Idle
    /\ IF session[s].role # "admin"
       THEN /\ Reply(Response("delete_user", s, 302))
            /\ UNCHANGED <<users_file, session, written, nchats>>
       ELSE /\ users_file' = save_users(SelectSeq(load_users,
                                                  LAMBDA u : u.username # username))
            /\ session' = IF session[s].username = username
                          THEN [session EXCEPT ![s] = NoSession]
                          ELSE session
            /\ written' = [written EXCEPT ![username] = <<>>]
            /\ nchats' = [nchats EXCEPT ![username] = <<>>]
            /\ Reply(Response("delete_user", s, 302))
    /\ UNCHANGED <<conversation_history, req, budget, handler>>

----------------------------------------------------------------------------
(* Conversation management *)

\* a slice that keeps the whole string
TakeAll(str, n) == str
\* str[:n]
Take(str, n) == SubSeq(str, 1, IF Len(str) < n THEN Len(str) ELSE n)

\* content.split("\n")[0]
RECURSIVE FirstLine(_)
FirstLine(str) ==
    IF str = <<>> \/ Head(str) = "\n" THEN <<>>
    ELSE <<Head(str)>> \o FirstLine(Tail(str))

TitleLen == 50
DefaultTitle == <<"Nueva conversacion">>

\* the title api_conversations derives for the conversation at 0-based index idx
Title(convo, idx) ==
    LET msgs == convo.messages
        us == {i \in 1..Len(msgs) : msgs[i].role = "user"}
        title == IF us = {} THEN DefaultTitle
                 ELSE LET i == CHOOSE i \in us : \A j \in us : i <= j
                      IN Take(FirstLine(msgs[i].content), TitleLen)
    IN IF title # <<>> THEN title ELSE <<"Conversacion ", ToString(idx + 1)>>

api_conversations(s) ==
    /\ Idle
    /\ IF ~LoggedIn(s)
       THEN Reply([Response("list", s, 401) EXCEPT !.error = "No autenticado"])
       ELSE IF ~HasUser(session[s].username)
       THEN Reply([Response("list", s, 404) EXCEPT !.error = "Usuario no encontrado"])
       ELSE LET conversations == get_user(session[s].username).conversations
            IN Reply([Response("list", s, 200) EXCEPT !.conversations =
                        [i \in 1..Len(conversations) |->
                            [id |-> i - 1, title |-> Title(conversations[i], i - 1)]]])
    /\ UNCHANGED <<users_file, conversation_history, session, req, written, nchats, budget, handler>>

\* the bounds check without its lower bound
InvalidIndexNoLower(conversations, index) == index >= Len(conversations)
\* the bounds check on the requested index
InvalidIndex(conversations, index) == index < 0 \/ index >= Len(conversations)

\* Python's conversations[index]; a negative index counts from the end
HasItem(conversations, index) ==
    -Len(conversations) <= index /\ index < Len(conversations)
\* the last conversation, whatever the index
ItemLast(conversations, index) == conversations[Len(conversations)]
Item(conversations, index) ==
    conversations[IF index < 0 THEN Len(conversations) + index + 1 ELSE index + 1]

api_get_conversation(s, index) ==
    /\ Idle
    /\ IF ~LoggedIn(s)
       THEN /\ Reply([Response("select", s, 401) EXCEPT !.error = "No autenticado",
                                                         !.arg = index])
            /\ UNCHANGED <<conversation_history, session>>
       ELSE IF ~HasUser(session[s].username)
       THEN /\ Reply([Response("select", s, 404) EXCEPT !.error = "Usuario no encontrado",
                                                         !.arg = index])
            /\ UNCHANGED <<conversation_history, session>>
       ELSE LET conversations == get_user(session[s].username).conversations
            IN IF InvalidIndex(conversations, index)
               THEN /\ Reply([Response("select", s, 404) EXCEPT
                                 !.error = "Indice de conversacion invalido",
                                 !.arg = index])
                    /\ UNCHANGED <<conversation_history, session>>
               ELSE IF ~HasItem(conversations, index)
               THEN \* IndexError: the request ends in a server error
                    /\ Reply([Response("select", s, 500) EXCEPT !.arg = index])
                    /\ UNCHANGED <<conversation_history, session>>
               ELSE LET messages == Item(conversations, index).messages
                    IN /\ conversation_history' = messages
                       /\ session' = [session EXCEPT ![s].current_conversation = index]
                       /\ Reply([Response("select", s, 200) EXCEPT !.messages = messages,
                                                                    !.arg = index])
    /\ UNCHANGED <<users_file, req, written, nchats, budget, handler>>

\* the length taken as the new index
NewIndexLen(conversations) == Len(conversations)
\* the index api_new_chat returns for the list it has appended to
NewIndex(conversations) == Len(conversations) - 1

api_new_chat(s) ==
    /\ Idle
    /\ IF ~LoggedIn(s)
       THEN /\ Reply([Response("create", s, 401) EXCEPT !.error = "No autenticado"])
            /\ UNCHANGED <<users_file, conversation_history, session, written, nchats>>
       ELSE IF ~HasUser(session[s].username)
       THEN /\ Reply([Response("create", s, 404) EXCEPT !.error = "Usuario no encontrado"])
            /\ UNCHANGED <<users_file, conversation_history, session, written, nchats>>
       ELSE LET user == get_user(session[s].username)
                conversations == Append(user.conversations, [messages |-> <<>>])
                new_index == NewIndex(conversations)
            IN /\ TotalConvs(load_users) < MaxConvs
               /\ users_file' = update_user([user EXCEPT !.conversations = conversations])
               /\ conversation_history' = <<>>
               /\ session' = [session EXCEPT ![s].current_conversation = new_index]
               /\ written' = [written EXCEPT ![user.username] =
                                 SetAt(@, Len(conversations), new_index + 1, <<>>, <<>>)]
               /\ nchats' = [nchats EXCEPT ![user.username] =
                                 SetAt(@, Len(conversations), new_index + 1, 0, 0)]
               /\ Reply([Response("create", s, 200) EXCEPT !.id = new_index])
    /\ UNCHANGED <<req, budget, handler>>

reset_history(s) ==
    /\ Idle
    /\ conversation_history' = <<>>
    /\ Reply(Response("reset_history", s, 200))
    /\ UNCHANGED <<users_file, session, req, written, nchats, budget, handler>>

----------------------------------------------------------------------------
(* The chat operation *)

RECURSIVE AttachmentRefs(_)
AttachmentRefs(attachments) ==
    IF attachments = <<>> THEN <<>>
    ELSE <<"\n", "[adjunto: ", Head(attachments), "]">> \o AttachmentRefs(Tail(attachments))

\* the content built from the message as sent, not stripped
ContentUnstripped(message, attachments) == message \o AttachmentRefs(attachments)
\* the content string built from the payload
Content(message, attachments) == Strip(message) \o AttachmentRefs(attachments)

\* a system turn put before every user turn
AppendUserTurnAlways(history, content) ==
    history \o <<Turn("system", SystemPrompt), Turn("user", content)>>
\* conversation_history after the appends that open a chat turn
AppendUserTurn(history, content) ==
    (IF history = <<>> THEN <<Turn("system", SystemPrompt)>> ELSE history)
        \o <<Turn("user", content)>>

\* the assistant content taken from a reply of the legacy endpoint
LegacyContent(r) ==
    LET c == IF r.message # <<>> THEN r.message ELSE r.choice
    IN IF c # <<>> THEN c ELSE NoContent

\* an error text that drops the first error
ErrorTextFallbackOnly(e, first_error) == <<"Error contacting LLM service: ", e>>
ErrorText(e, first_error) ==
    <<"Error contacting LLM service: ", e, "\n", "(initial error: ", first_error, ")">>

\* assistant_content after the try/except around the two upstream calls:
\* r1 is the outcome of the primary call, r2 of the legacy call
AssistantContent(r1, r2) ==
    IF r1.ok THEN r1.content
    ELSE IF r2.ok THEN LegacyContent(r2)
    ELSE ErrorText(r2.err, r1.err)

\* the persistence block is entered: the session names a user whose record exists
Persistable(s) == LoggedIn(s) /\ HasUser(session[s].username)

\* conv_idx, the index the persistence block writes to
ConvIdx(s) ==
    IF session[s].current_conversation = Unset
    THEN Len(get_user(session[s].username).conversations)
    ELSE session[s].current_conversation

\* the copy taken before the assistant turn was appended
PersistedWithoutReply(conversations, conv_idx, history) ==
    LET n == IF Len(conversations) <= conv_idx THEN conv_idx + 1 ELSE Len(conversations)
    IN SetAt(conversations, n, conv_idx + 1,
             [messages |-> SubSeq(history, 1, Len(history) - 1)], [messages |-> <<>>])
\* the conversations list after allocation, padding and the copy of the history
PersistedConversations(conversations, conv_idx, history) ==
    LET n == IF Len(conversations) <= conv_idx THEN conv_idx + 1 ELSE Len(conversations)
    IN SetAt(conversations, n, conv_idx + 1, [messages |-> history], [messages |-> <<>>])

\* the persistence block of chat for session s, with the history as it is then
Persist(s, history) ==
    IF Persistable(s)
    THEN LET user == get_user(session[s].username)
             conv_idx == ConvIdx(s)
             conversations == PersistedConversations(user.conversations, conv_idx, history)
         IN /\ users_file' = update_user([user EXCEPT !.conversations = conversations])
            /\ session' = [session EXCEPT ![s].current_conversation = conv_idx]
            /\ written' = [written EXCEPT ![user.username] =
                              SetAt(@, Len(conversations), conv_idx + 1, history, <<>>)]
            /\ nchats' = [nchats EXCEPT ![user.username] =
                             SetAt(@, Len(conversations), conv_idx + 1,
                                   (IF conv_idx + 1 <= Len(@) THEN @[conv_idx + 1] ELSE 0) + 1,
                                   0)]
    ELSE UNCHANGED <<users_file, session, written, nchats>>

\* the conversations the persistence block adds for session s
Allocated(s) ==
    LET n == Len(get_user(session[s].username).conversations)
    IN IF ConvIdx(s) >= n THEN ConvIdx(s) + 1 - n ELSE 0

\* the bounds let this chat request through
WithinBounds(s) ==
    /\ budget < MaxChats
    /\ Persistable(s) => TotalConvs(load_users) + Allocated(s) <= MaxConvs

\* the whole handler, with the outcomes r1, r2 of the upstream calls
chat(s, message, attachments, r1, r2) ==
    /\ Idle
    /\ LET content == Content(message, attachments)
       IN IF content = <<>>
          THEN /\ Reply([Response("chat", s, 400) EXCEPT !.error = "Message is empty"])
               /\ UNCHANGED <<users_file, conversation_history, session, written,
                              nchats, budget, handler>>
          ELSE LET assistant_content == AssistantContent(r1, r2)
                   history == Append(AppendUserTurn(conversation_history, content),
                                     Turn("assistant", assistant_content))
               IN /\ WithinBounds(s)
                  /\ conversation_history' = history
                  /\ Persist(s, history)
                  /\ Reply([Response("chat", s, 200) EXCEPT !.message = assistant_content])
                  /\ budget' = budget + 1
                  /\ UNCHANGED handler
    /\ UNCHANGED req

----------------------------------------------------------------------------
(* Inputs of the requests *)

\* the (browser, username) pairs of the login attempts
Logins == { <<"s1", "admin">>, <<"s2", "bob">> }
\* the registration forms submitted: username, password, confirm
RegisterForms == { <<"", "pw", "pw">>, <<"bob", "", "">>, <<"bob", "pw", "x">>,
                   <<"bob", "pw", "pw">>, <<"admin", "pw", "pw">> }
Deletable == Usernames \ {"admin"}
Indexes == -1..MaxConvs
PrimaryDown == CHOOSE r \in PrimaryReplies : ~r.ok
PrimaryUp == CHOOSE r \in PrimaryReplies : r.ok
LegacyDown == CHOOSE r \in LegacyReplies : ~r.ok
\* the outcomes of the two upstream calls of one chat request; the legacy
\* endpoint is called only when the primary call failed
Upstreams == { u \in PrimaryReplies \X LegacyReplies : u[1].ok => u[2] = LegacyDown }

Next ==
    \/ \E l \in Logins, p \in Passwords : login(l[1], l[2], p)
    \/ \E f \in RegisterForms : register(f[1], f[2], f[3])
    \/ \E s \in Sessions : logout(s)
    \/ \E s \in Sessions, u \in Deletable : delete_user(s, u)
    \/ \E s \in Sessions : api_conversations(s)
    \/ \E s \in Sessions, i \in Indexes : api_get_conversation(s, i)
    \/ \E s \in Sessions : api_new_chat(s)
    \/ \E s \in Sessions : reset_history(s)
    \/ \E s \in Sessions, p \in ChatPayloads, u \in Upstreams :
          chat(s, p[1], p[2], u[1], u[2])
    \/ receive

Spec == Init /\ [][Next]_vars

----------------------------------------------------------------------------
(* The chat handler step by step: the phases of one chat turn.  The other   *)
(* requests wait until the turn has returned.                               *)

\* lines 429-459: parse the payload, refuse an empty content, append the
\* system turn to an empty history and the user turn
chat_begin(s, message, attachments) ==
    /\ Idle
    /\ LET content == Content(message, attachments)
       IN IF content = <<>>
          THEN /\ Reply([Response("chat", s, 400) EXCEPT !.error = "Message is empty"])
               /\ UNCHANGED <<conversation_history, req, budget, handler>>
          ELSE /\ WithinBounds(s)
               /\ conversation_history' = AppendUserTurn(conversation_history, content)
               /\ req' = [IdleReq EXCEPT !.phase = "TRANSCRIPT_APPENDED_USER", !.sess = s]
               /\ budget' = budget + 1
               /\ UNCHANGED <<resp, streak, handler>>
    /\ UNCHANGED <<users_file, session, written, nchats>>

\* line 477: the request to the primary endpoint is sent
chat_post_primary ==
    /\ req.phase = "TRANSCRIPT_APPENDED_USER"
    /\ req' = [req EXCEPT !.phase = "AWAIT_PRIMARY", !.calls = Append(@, "primary")]
    /\ UNCHANGED <<users_file, conversation_history, session, resp, streak, written,
                   nchats, budget, handler>>

\* the legacy request sent whatever the primary call gave
chat_primary_reply_always_legacy(r) ==
    /\ req.phase = "AWAIT_PRIMARY"
    /\ req' = [req EXCEPT !.phase = "AWAIT_LEGACY", !.first_error = r.err,
                          !.calls = Append(@, "legacy"), !.replies = <<r>>]
    /\ UNCHANGED <<users_file, conversation_history, session, resp, streak, written,
                   nchats, budget, handler>>

\* lines 478-489: the primary call ends; on failure the legacy request is sent
chat_primary_reply(r) ==
    /\ req.phase = "AWAIT_PRIMARY"
    /\ req' = IF r.ok
              THEN [req EXCEPT !.phase = "SUCCESS", !.assistant_content = r.content,
                               !.replies = <<r>>]
              ELSE [req EXCEPT !.phase = "AWAIT_LEGACY", !.first_error = r.err,
                               !.calls = Append(@, "legacy"), !.replies = <<r>>]
    /\ UNCHANGED <<users_file, conversation_history, session, resp, streak, written,
                   nchats, budget, handler>>

\* a legacy failure that is not caught: the request ends in a server error
chat_legacy_reply_raises(r) ==
    /\ req.phase = "AWAIT_LEGACY"
    /\ IF r.ok
       THEN /\ req' = [req EXCEPT !.phase = "SUCCESS",
                                  !.assistant_content = LegacyContent(r)]
            /\ UNCHANGED <<resp, streak>>
       ELSE /\ req' = IdleReq
            /\ Reply(Response("chat", req.sess, 500))
    /\ UNCHANGED <<users_file, conversation_history, session, written, nchats, budget, handler>>

\* lines 490-496: the legacy call ends
chat_legacy_reply(r) ==
    /\ req.phase = "AWAIT_LEGACY"
    /\ req' = IF r.ok
              THEN [req EXCEPT !.phase = "SUCCESS",
                               !.assistant_content = LegacyContent(r)]
              ELSE [req EXCEPT !.phase = "FAILURE", !.error = r.err,
                               !.assistant_content = ErrorText(r.err, req.first_error)]
    /\ UNCHANGED <<users_file, conversation_history, session, resp, streak, written,
                   nchats, budget, handler>>

\* line 498
chat_append_assistant ==
    /\ req.phase \in {"SUCCESS", "FAILURE"}
    /\ conversation_history' =
           Append(conversation_history, Turn("assistant", req.assistant_content))
    /\ req' = [req EXCEPT !.phase = "TRANSCRIPT_APPENDED_ASSISTANT"]
    /\ UNCHANGED <<users_file, session, resp, streak, written, nchats, budget, handler>>

\* lines 501-519, when the session names a stored user
chat_persist ==
    /\ req.phase = "TRANSCRIPT_APPENDED_ASSISTANT"
    /\ Persistable(req.sess)
    /\ Persist(req.sess, conversation_history)
    /\ req' = [req EXCEPT !.phase = "PERSISTED"]
    /\ UNCHANGED <<conversation_history, resp, streak, budget, handler>>

\* line 520, reached after the persistence block or past its conditions
chat_return ==
    /\ \/ req.phase = "PERSISTED"
       \/ req.phase = "TRANSCRIPT_APPENDED_ASSISTANT" /\ ~Persistable(req.sess)
    /\ Reply([Response("chat", req.sess, 200) EXCEPT !.message = req.assistant_content])
    /\ req' = IdleReq
    /\ UNCHANGED <<users_file, conversation_history, session, written, nchats, budget, handler>>

\* a step of the chat turn in flight
ChatStep ==
    \/ chat_post_primary
    \/ \E r \in PrimaryReplies : chat_primary_reply(r)
    \/ \E r \in LegacyReplies : chat_legacy_reply(r)
    \/ chat_append_assistant
    \/ chat_persist
    \/ chat_return

\* The requests that set the stage of a turn, and the steps of the turn
TurnNext ==
    \/ \E l \in Logins, p \in Passwords : login(l[1], l[2], p)
    \/ \E f \in RegisterForms : register(f[1], f[2], f[3])
    \/ \E s \in Sessions, u \in Deletable : delete_user(s, u)
    \/ \E s \in Sessions : api_new_chat(s)
    \/ \E s \in Sessions : reset_history(s)
    \/ \E s \in Sessions, p \in ChatPayloads : chat_begin(s, p[1], p[2])
    \/ chat_post_primary
    \/ \E r \in PrimaryReplies : chat_primary_reply(r)
    \/ \E r \in LegacyReplies : chat_legacy_reply(r)
    \/ chat_append_assistant
    \/ chat_persist
    \/ chat_return
    \/ receive

\* The handler runs on once started, and each upstream call ends (with a reply,
\* an error or its timeout): a chat turn in flight keeps taking steps.
TurnSpec == Init /\ [][TurnNext]_vars /\ WF_vars(ChatStep)

----------------------------------------------------------------------------
(* Handlers served concurrently: api_new_chat and the persistence block of  *)
(* chat, with the reads and the write of the users file as separate steps.  *)

InFlight == {s \in Sessions : handler[s].pc \in {"got", "loaded"}}

\* api_new_chat, lines 305-313: get_user and the append to the local copy
race_new_chat_get(s) ==
    /\ Idle /\ handler[s].pc = "idle"
    /\ Persistable(s)
    /\ TotalConvs(load_users) + Cardinality(InFlight) < MaxConvs
    /\ LET user == get_user(session[s].username)
           conversations == Append(user.conversations, [messages |-> <<>>])
       IN handler' = [handler EXCEPT ![s] =
                        [pc |-> "got", op |-> "create", seen |-> users_file,
                         user |-> [user EXCEPT !.conversations = conversations],
                         users |-> <<>>, id |-> NewIndex(conversations)]]
    /\ UNCHANGED <<users_file, conversation_history, session, req, resp, streak,
                   written, nchats, budget>>

\* chat, lines 429-517: the turn is appended to the history, then get_user,
\* the allocation and the copy of the history into the local record
race_chat_get(s, message, attachments, r1, r2) ==
    /\ Idle /\ handler[s].pc = "idle"
    /\ Persistable(s)
    /\ Content(message, attachments) # <<>>
    /\ budget < MaxChats
    /\ TotalConvs(load_users) + Cardinality(InFlight) + Allocated(s) <= MaxConvs
    /\ LET history == Append(AppendUserTurn(conversation_history,
                                            Content(message, attachments)),
                             Turn("assistant", AssistantContent(r1, r2)))
           user == get_user(session[s].username)
           conv_idx == ConvIdx(s)
           conversations == PersistedConversations(user.conversations, conv_idx, history)
       IN /\ conversation_history' = history
          /\ session' = [session EXCEPT ![s].current_conversation = conv_idx]
          /\ handler' = [handler EXCEPT ![s] =
                           [pc |-> "got", op |-> "chat", seen |-> users_file,
                            user |-> [user EXCEPT !.conversations = conversations],
                            users |-> <<>>, id |-> conv_idx]]
    /\ budget' = budget + 1
    /\ UNCHANGED <<users_file, req, resp, streak, written, nchats>>

\* update_user, line 107: users = load_users()
race_update_load(s) ==
    /\ handler[s].pc = "got"
    /\ handler' = [handler EXCEPT ![s].pc = "loaded", ![s].users = load_users]
    /\ UNCHANGED <<users_file, conversation_history, session, req, resp, streak,
                   written, nchats, budget>>

\* a write that reads the file again
SnapshotFresh(s) == load_users
\* the list the handler of s loaded in update_user
Snapshot(s) == handler[s].users

\* update_user, lines 108-116: the record is replaced in the list that was
\* loaded and the whole list is written; api_new_chat then clears the history
\* and sets the pointer (lines 317-318)
race_update_save(s) ==
    /\ handler[s].pc = "loaded"
    /\ users_file' = save_users(UpdatedUsers(Snapshot(s), handler[s].user))
    /\ handler' = [handler EXCEPT ![s].pc = "done"]
    /\ IF handler[s].op = "create"
       THEN /\ conversation_history' = <<>>
            /\ session' = [session EXCEPT ![s].current_conversation = handler[s].id]
       ELSE UNCHANGED <<conversation_history, session>>
    /\ UNCHANGED <<req, resp, streak, written, nchats, budget>>

\* the response of the handler reaches the browser
race_return(s) ==
    /\ handler[s].pc = "done"
    /\ handler' = [handler EXCEPT ![s] = NoHandler]
    /\ UNCHANGED <<users_file, conversation_history, session, req, resp, streak,
                   written, nchats, budget>>

\* a login of a browser that has no request being served
race_login(s, username, password) ==
    handler[s].pc = "idle" /\ login(s, username, password)

\* two browsers of one user, or of two users
RaceLogins == { <<"s1", "admin">>, <<"s2", "admin">>, <<"s2", "bob">> }

RaceNext ==
    \/ \E l \in RaceLogins : race_login(l[1], l[2], AdminPassword)
    \/ register("bob", AdminPassword, AdminPassword)
    \/ \E s \in Sessions : race_new_chat_get(s)
    \/ \E s \in Sessions : race_chat_get(s, <<"h">>, <<>>, PrimaryUp, LegacyDown)
    \/ \E s \in Sessions : race_update_load(s)
    \/ \E s \in Sessions : race_update_save(s)
    \/ \E s \in Sessions : race_return(s)
    \/ receive

RaceSpec == Init /\ [][RaceNext]_vars

----------------------------------------------------------------------------
(* The list of models *)

\* What a models path answers: an exception of the request (network error,
\* status that is not 2xx, body that is not JSON), a dict with a 'data' list,
\* or a plain array.  An entry of 'data' is a dict with id and name ("" when
\* the key is missing or empty) or something that is not a dict.
ModelsReplies ==
    { [kind |-> "error", body |-> <<>>],
      [kind |-> "data", body |-> << [dict |-> TRUE, id |-> "m1", name |-> ""],
                                    [dict |-> TRUE, id |-> "", name |-> "m2"],
                                    [dict |-> TRUE, id |-> "", name |-> ""] >>],
      [kind |-> "data", body |-> << [dict |-> FALSE, id |-> "", name |-> ""] >>],
      [kind |-> "array", body |-> <<"m3">>] }

\* the try block raises: the request failed or m.get is called on a non-dict
ModelsRaise(r) ==
    \/ r.kind = "error"
    \/ r.kind = "data" /\ \E i \in 1..Len(r.body) : ~r.body[i].dict

\* the ids collected from the 'data' list
RECURSIVE ModelIds(_)
ModelIds(entries) ==
    IF entries = <<>> THEN <<>>
    ELSE LET e == Head(entries)
             model_id == IF e.id # "" THEN e.id ELSE e.name
         IN (IF model_id # "" THEN <<model_id>> ELSE <<>>) \o ModelIds(Tail(entries))

\* models, for a reply that does not raise
ParseModels(r) == IF r.kind = "data" THEN ModelIds(r.body) ELSE r.body

PrimaryPath == "/v1/models"
SecondaryPath == "/models"

\* lines 363-369: the GET to the primary path is sent
list_models_begin(s) ==
    /\ Idle
    /\ req' = [IdleReq EXCEPT !.phase = "MODELS_PRIMARY", !.sess = s,
                              !.calls = <<PrimaryPath>>]
    /\ UNCHANGED <<users_file, conversation_history, session, resp, streak, written,
                   nchats, budget, handler>>

\* the primary failure answered with the hard error, without the second path
list_models_primary_reply_no_fallback(r) ==
    /\ req.phase = "MODELS_PRIMARY"
    /\ req' = IdleReq
    /\ IF ~ModelsRaise(r)
       THEN Reply([Response("models", req.sess, 200) EXCEPT
                      !.models = ParseModels(r), !.calls = req.calls, !.replies = <<r>>])
       ELSE Reply([Response("models", req.sess, 500) EXCEPT
                      !.error = "Error fetching models", !.calls = req.calls,
                      !.replies = <<r>>])
    /\ UNCHANGED <<users_file, conversation_history, session, written, nchats, budget, handler>>

\* lines 369-386: the primary path answers; on an exception the GET to the
\* secondary path is sent
list_models_primary_reply(r) ==
    /\ req.phase = "MODELS_PRIMARY"
    /\ IF ~ModelsRaise(r)
       THEN /\ Reply([Response("models", req.sess, 200) EXCEPT
                         !.models = ParseModels(r), !.calls = req.calls,
                         !.replies = <<r>>])
            /\ req' = IdleReq
       ELSE /\ req' = [req EXCEPT !.phase = "MODELS_SECONDARY",
                                  !.calls = Append(@, SecondaryPath),
                                  !.replies = <<r>>]
            /\ UNCHANGED <<resp, streak>>
    /\ UNCHANGED <<users_file, conversation_history, session, written, nchats, budget, handler>>

\* lines 387-402: the secondary path answers
list_models_secondary_reply(r) ==
    /\ req.phase = "MODELS_SECONDARY"
    /\ req' = IdleReq
    /\ IF ~ModelsRaise(r)
       THEN Reply([Response("models", req.sess, 200) EXCEPT
                      !.models = ParseModels(r), !.calls = req.calls,
                      !.replies = Append(req.replies, r)])
       ELSE Reply([Response("models", req.sess, 500) EXCEPT
                      !.error = "Error fetching models", !.calls = req.calls,
                      !.replies = Append(req.replies, r)])
    /\ UNCHANGED <<users_file, conversation_history, session, written, nchats, budget, handler>>

ModelsNext ==
    \/ \E l \in Logins : login(l[1], l[2], AdminPassword)
    \/ \E s \in Sessions : api_new_chat(s)
    \/ \E s \in Sessions, p \in ChatPayloads :
          chat(s, p[1], p[2], PrimaryUp, LegacyDown)
    \/ \E s \in Sessions : list_models_begin(s)
    \/ \E r \in ModelsReplies : list_models_primary_reply(r)
    \/ \E r \in ModelsReplies : list_models_secondary_reply(r)
    \/ receive

ModelsSpec == Init /\ [][ModelsNext]_vars

----------------------------------------------------------------------------
(* The conversation list with first lines on both sides of the title length *)

LongLine == [i \in 1..(TitleLen + 2) |-> "x"]
\* payloads whose first line is short, longer than a title, or empty
ListPayloads == { << <<"h", "\n", "w">>, <<>> >>, << LongLine, <<>> >>,
                  << <<>>, <<"f">> >> }
ListNext ==
    \/ \E l \in Logins : login(l[1], l[2], AdminPassword)
    \/ register("bob", AdminPassword, AdminPassword)
    \/ \E s \in Sessions : api_new_chat(s)
    \/ \E s \in Sessions : reset_history(s)
    \/ \E s \in Sessions, p \in ListPayloads :
          chat(s, p[1], p[2], PrimaryUp, LegacyDown)
    \/ \E s \in Sessions : api_conversations(s)
    \/ receive

ListSpec == Init /\ [][ListNext]_vars

----------------------------------------------------------------------------
(* Chats whose message names the sender *)

\* the message a browser sends: the name of the user it is logged in as
Signed(s) == <<session[s].username>>

\* a chat of a logged-in browser
signed_chat(s, r1, r2) == LoggedIn(s) /\ chat(s, Signed(s), <<>>, r1, r2)

SignedNext ==
    \/ \E l \in Logins : login(l[1], l[2], AdminPassword)
    \/ register("bob", AdminPassword, AdminPassword)
    \/ \E s \in Sessions : logout(s)
    \/ \E s \in Sessions, i \in 0..(MaxConvs - 1) : api_get_conversation(s, i)
    \/ \E s \in Sessions : api_new_chat(s)
    \/ \E s \in Sessions : signed_chat(s, PrimaryUp, LegacyDown)
    \/ receive

SignedSpec == Init /\ [][SignedNext]_vars

----------------------------------------------------------------------------
(* Vocabulary of the properties *)

UserIn(doc, username) ==
    \E i \in 1..Len(json_load(doc)) : json_load(doc)[i].username = username

\* the conversations stored for username in the document doc
ConversationsIn(doc, username) ==
    LET users == json_load(doc)
    IN users[CHOOSE i \in 1..Len(users) : users[i].username = username].conversations

Stored(username) == ConversationsIn(users_file, username)

IsPrefix(a, b) == Len(a) <= Len(b) /\ SubSeq(b, 1, Len(a)) = a

Has(text, token) == \E i \in 1..Len(text) : text[i] = token

Pointer(s) == session[s].current_conversation

\* s names a stored user and points at one of that user's conversations
PointsAtStored(s) ==
    /\ Persistable(s)
    /\ Pointer(s) # Unset
    /\ Pointer(s) < Len(Stored(session[s].username))

\* the stored messages of the conversation s points at
Current(s) == Stored(session[s].username)[Pointer(s) + 1].messages

\* the Working Transcript, the session pointers and the user store are untouched
NoEffect == UNCHANGED <<conversation_history, session, users_file>>

----------------------------------------------------------------------------
(* C1: after N chat operations persisted into the conversation a logged-in  *)
(* session points at, that conversation holds 2N + 1 messages (none when    *)
(* N = 0), whatever other sessions did before.                              *)
C1_MessageCount ==
    \A s \in Sessions :
        PointsAtStored(s) =>
            LET n == nchats[session[s].username][Pointer(s) + 1]
            IN Len(Current(s)) = IF n > 0 THEN 2 * n + 1 ELSE 0

(* C2: a successful select(i) returns exactly the message sequence that the *)
(* most recent chat or create wrote to conversations[i] of that user.       *)
C2_SelectRoundTrip ==
    resp.op = "select" /\ resp.status = 200 =>
        /\ resp.arg + 1 <= Len(written[session[resp.sess].username])
        /\ resp.messages = written[session[resp.sess].username][resp.arg + 1]

\* a transcript of a whole chat turn has been reloaded after the other user
\* has written to the store
C2_Witness ==
    /\ resp.op = "select" /\ resp.status = 200
    /\ Len(resp.messages) >= 3
    /\ \E u \in Usernames \ {session[resp.sess].username} :
          UserIn(users_file, u) /\ Len(Stored(u)) > 0

(* C3: select of a logged-in user with an index < 0 or >= the number of the *)
(* user's conversations answers 404 and changes neither the Working         *)
(* Transcript nor the session pointer nor the user store.                   *)
C3_InvalidIndex ==
    [][resp'.op = "select" =>
       \A s \in Sessions, i \in Indexes :
          /\ api_get_conversation(s, i)
          /\ Persistable(s)
          /\ (i < 0 \/ i >= Len(Stored(session[s].username)))
          => resp'.status = 404 /\ NoEffect]_vars

\* an out-of-range select was refused while a transcript was loaded
C3_Witness ==
    /\ resp.op = "select" /\ resp.status = 404
    /\ Persistable(resp.sess)
    /\ resp.arg >= Len(Stored(session[resp.sess].username))
    /\ conversation_history # <<>>
    /\ Pointer(resp.sess) # Unset

(* C4 as claimed: every chat request that passes the empty check, logged in *)
(* or not, has written the whole Working Transcript to                      *)
(* conversations[current_conversation] when its response is returned.       *)
C4_AlwaysPersisted ==
    resp.op = "chat" /\ resp.status = 200 =>
        PointsAtStored(resp.sess) /\ Current(resp.sess) = conversation_history

(* C4 amended: a chat request that passes the empty check and comes from a  *)
(* session naming a stored user has written the whole Working Transcript to *)
(* conversations[current_conversation] when its response is returned.       *)
C4_PersistedWhenLoggedIn ==
    resp.op = "chat" /\ resp.status = 200 /\ Persistable(resp.sess) =>
        PointsAtStored(resp.sess) /\ Current(resp.sess) = conversation_history

\* a second turn of a conversation has been written back in full
C4_Witness ==
    /\ resp.op = "chat" /\ resp.status = 200
    /\ PointsAtStored(resp.sess)
    /\ Len(conversation_history) >= 5
    /\ Current(resp.sess) = conversation_history

\* the stored messages of conversation index of username after the step
StoredNext(username, index) ==
    ConversationsIn(users_file', username)[index + 1].messages

(* C5: when the primary and the legacy call both fail, chat answers 200     *)
(* with a text that embeds the legacy error and the primary error; that     *)
(* text is the assistant turn appended to the Working Transcript and the    *)
(* last turn of the conversation the transcript is persisted to.            *)
C5_BothFail ==
    [][resp'.op = "chat" =>
       \A s \in Sessions, p \in ChatPayloads, u \in Upstreams :
          /\ chat(s, p[1], p[2], u[1], u[2])
          /\ Content(p[1], p[2]) # <<>>
          /\ ~u[1].ok /\ ~u[2].ok
          => /\ resp'.status = 200
             /\ Has(resp'.message, u[1].err) /\ Has(resp'.message, u[2].err)
             /\ conversation_history' =
                    Append(AppendUserTurn(conversation_history, Content(p[1], p[2])),
                           Turn("assistant", resp'.message))
             /\ Persistable(s) =>
                    LET stored == StoredNext(session[s].username,
                                             session'[s].current_conversation)
                    IN stored # <<>> /\ stored[Len(stored)] = Turn("assistant", resp'.message)
      ]_vars

\* the error text of a doubly failed turn is the stored assistant turn
C5_Witness ==
    /\ resp.op = "chat" /\ resp.status = 200
    /\ Has(resp.message, PrimaryDown.err) /\ Has(resp.message, LegacyDown.err)
    /\ PointsAtStored(resp.sess)
    /\ Current(resp.sess)[Len(Current(resp.sess))] = Turn("assistant", resp.message)

(* C6: two api_new_chat calls made in a row by one session return           *)
(* consecutive indices k and k+1 of two stored conversations that are both  *)
(* empty, and a select of either index right after returns no messages.     *)
C6_TwoCreates ==
    /\ resp.op = "create" /\ resp.status = 200 /\ streak.n = 2 =>
          LET stored == Stored(session[resp.sess].username)
          IN /\ streak.second = resp.id
             /\ streak.second = streak.first + 1
             /\ 0 <= streak.first /\ streak.second < Len(stored)
             /\ stored[streak.first + 1].messages = <<>>
             /\ stored[streak.second + 1].messages = <<>>
    /\ resp.op = "select" /\ resp.status = 200 /\ streak.n = 2 =>
          resp.messages = <<>>

\* the first of two conversations created in a row has been selected
C6_Witness ==
    /\ resp.op = "select" /\ resp.status = 200 /\ streak.n = 2
    /\ resp.arg = streak.first

(* C7: whenever the stored messages of a conversation change, the previous  *)
(* sequence is a prefix of the new one.                                     *)
C7_AppendOnly ==
    [][users_file' # users_file =>
          \A u \in Usernames :
             UserIn(users_file, u) /\ UserIn(users_file', u) =>
                \A i \in 1..Len(Stored(u)) :
                   /\ i <= Len(ConversationsIn(users_file', u))
                   /\ IsPrefix(Stored(u)[i].messages, StoredNext(u, i - 1))
      ]_vars

\* the transitions of the state machine of a chat turn
TurnEdges ==
    { <<"IDLE", "TRANSCRIPT_APPENDED_USER">>,
      <<"TRANSCRIPT_APPENDED_USER", "AWAIT_PRIMARY">>,
      <<"AWAIT_PRIMARY", "SUCCESS">>,
      <<"AWAIT_PRIMARY", "AWAIT_LEGACY">>,
      <<"AWAIT_LEGACY", "SUCCESS">>,
      <<"AWAIT_LEGACY", "FAILURE">>,
      <<"SUCCESS", "TRANSCRIPT_APPENDED_ASSISTANT">>,
      <<"FAILURE", "TRANSCRIPT_APPENDED_ASSISTANT">>,
      <<"TRANSCRIPT_APPENDED_ASSISTANT", "PERSISTED">>,
      <<"PERSISTED", "IDLE">> }

\* the roles of the last n turns of the Working Transcript
LastRoles(n) ==
    IF Len(conversation_history) < n THEN <<>>
    ELSE [i \in 1..n |-> conversation_history[Len(conversation_history) - n + i].role]

\* where the appends stand in each phase of a turn
TurnAppends ==
    /\ req.phase \in {"TRANSCRIPT_APPENDED_USER", "AWAIT_PRIMARY", "AWAIT_LEGACY",
                      "SUCCESS", "FAILURE"}
          => LastRoles(1) = <<"user">>
    /\ req.phase \in {"TRANSCRIPT_APPENDED_ASSISTANT", "PERSISTED"}
          => /\ LastRoles(2) = <<"user", "assistant">>
             /\ conversation_history[Len(conversation_history)].content =
                    req.assistant_content
    /\ req.phase = "PERSISTED"
          => PointsAtStored(req.sess) /\ Current(req.sess) = conversation_history

(* C8 as claimed: every phase change of a chat turn is a transition of      *)
(* IDLE -> TRANSCRIPT_APPENDED(user) -> AWAIT_PRIMARY -> {SUCCESS |         *)
(* AWAIT_LEGACY -> {SUCCESS | FAILURE}} -> TRANSCRIPT_APPENDED(assistant)   *)
(* -> PERSISTED -> IDLE, so a turn returns to IDLE only from PERSISTED.     *)
C8_AlwaysThroughPersisted ==
    [][req'.phase # req.phase => <<req.phase, req'.phase>> \in TurnEdges]_vars

(* C8 amended: every phase change of a chat turn is a transition of that    *)
(* machine, or the return from TRANSCRIPT_APPENDED(assistant) to IDLE of a  *)
(* turn whose session names no stored user; the assistant turn is appended  *)
(* after the user turn and before persistence; whatever the upstream        *)
(* outcome the turn returns to IDLE, and it reaches PERSISTED first when    *)
(* its session names a stored user.                                         *)
C8_Turn ==
    /\ [][req'.phase # req.phase =>
             \/ <<req.phase, req'.phase>> \in TurnEdges
             \/ /\ <<req.phase, req'.phase>> = <<"TRANSCRIPT_APPENDED_ASSISTANT", "IDLE">>
                /\ \/ session[req.sess].username = None
                   \/ ~UserIn(users_file, session[req.sess].username)]_vars
    /\ []TurnAppends
    /\ (req.phase = "TRANSCRIPT_APPENDED_USER") ~> (req.phase = "IDLE")
    /\ \A s \in Sessions :
          (/\ req.phase = "TRANSCRIPT_APPENDED_USER" /\ req.sess = s
           /\ session[s].username # None /\ UserIn(users_file, session[s].username))
             ~> (req.phase = "PERSISTED" /\ req.sess = s)

\* a turn whose two upstream calls failed is persisted
C8_Witness ==
    /\ req.phase = "PERSISTED"
    /\ req.error # "" /\ req.first_error # ""

(* C9 as claimed: a chat request whose message is empty (after stripping)   *)
(* answers 400 and has no effect, whether or not it carries attachments.    *)
C9_EmptyMessage ==
    [][resp'.op = "chat" =>
       \A s \in Sessions, p \in ChatPayloads, u \in Upstreams :
          /\ chat(s, p[1], p[2], u[1], u[2])
          /\ Strip(p[1]) = <<>>
          => resp'.status = 400 /\ resp'.error # "" /\ NoEffect]_vars

(* C9 amended: a chat request whose message is empty (after stripping) and  *)
(* that carries no attachment answers 400 and has no effect.                *)
C9_EmptyContent ==
    [][resp'.op = "chat" =>
       \A s \in Sessions, p \in ChatPayloads, u \in Upstreams :
          /\ chat(s, p[1], p[2], u[1], u[2])
          /\ Strip(p[1]) = <<>> /\ p[2] = <<>>
          => resp'.status = 400 /\ resp'.error # "" /\ NoEffect]_vars

\* an empty chat request was refused while a transcript was loaded
C9_Witness ==
    /\ resp.op = "chat" /\ resp.status = 400
    /\ conversation_history # <<>>

(* C10: list, select and create answer 401 for a session without username   *)
(* and 404 for a session whose username is not in the users file, and in    *)
(* both cases have no effect.                                               *)
C10_IdentityErrors ==
    [][resp'.op \in {"list", "select", "create"} =>
       \A s \in Sessions :
          /\ \/ api_conversations(s)
             \/ \E i \in Indexes : api_get_conversation(s, i)
             \/ api_new_chat(s)
          => /\ session[s].username = None =>
                   resp'.status = 401 /\ resp'.error # "" /\ NoEffect
             /\ session[s].username # None /\ ~UserIn(users_file, session[s].username) =>
                   resp'.status = 404 /\ resp'.error # "" /\ NoEffect
      ]_vars

\* create was refused for a session whose user has been deleted
C10_Witness ==
    /\ resp.op = "create" /\ resp.status = 404
    /\ session[resp.sess].username # None
    /\ ~UserIn(users_file, session[resp.sess].username)

\* the first line of the first turn with role=user of msgs, <<>> without one
HasUserTurn(msgs) == \E i \in 1..Len(msgs) : msgs[i].role = "user"
FirstUserLine(msgs) ==
    LET i == CHOOSE i \in 1..Len(msgs) :
                /\ msgs[i].role = "user"
                /\ \A j \in 1..(i - 1) : msgs[j].role # "user"
    IN FirstLine(msgs[i].content)

\* t is line cut to at most TitleLen characters
IsCut(t, line) ==
    /\ IsPrefix(t, line)
    /\ Len(t) = IF Len(line) < TitleLen THEN Len(line) ELSE TitleLen

\* the summaries are one per stored conversation of username, in storage
\* order, the id being the index
OnePerConversation(summaries, username) ==
    /\ Len(summaries) = Len(Stored(username))
    /\ \A i \in 1..Len(summaries) : summaries[i].id = i - 1

(* C11 as claimed: list returns one {id, title} per stored conversation in  *)
(* storage order with id = index; the title is the first line of the first  *)
(* user turn cut to 50 characters, the default title when there is no user  *)
(* turn; list has no effect.                                                *)
C11_TitleIsFirstLine ==
    [][resp'.op = "list" =>
       \A s \in Sessions :
          api_conversations(s) /\ Persistable(s) =>
             /\ resp'.status = 200
             /\ OnePerConversation(resp'.conversations, session[s].username)
             /\ \A i \in 1..Len(resp'.conversations) :
                   LET msgs == Stored(session[s].username)[i].messages
                       title == resp'.conversations[i].title
                   IN IF HasUserTurn(msgs) THEN IsCut(title, FirstUserLine(msgs))
                      ELSE title = DefaultTitle
             /\ NoEffect]_vars

(* C11 amended: as claimed, except that a first user turn whose first line   *)
(* is empty gives the numbered title "Conversacion <index + 1>".            *)
C11_ListTitles ==
    [][resp'.op = "list" =>
       \A s \in Sessions :
          api_conversations(s) /\ Persistable(s) =>
             /\ resp'.status = 200
             /\ OnePerConversation(resp'.conversations, session[s].username)
             /\ \A i \in 1..Len(resp'.conversations) :
                   LET msgs == Stored(session[s].username)[i].messages
                       title == resp'.conversations[i].title
                   IN IF ~HasUserTurn(msgs) THEN title = DefaultTitle
                      ELSE IF FirstUserLine(msgs) = <<>>
                      THEN title = <<"Conversacion ", ToString(i)>>
                      ELSE IsCut(title, FirstUserLine(msgs))
             /\ NoEffect]_vars

\* a list of two conversations: one with a cut title, one with the default
C11_Witness ==
    /\ resp.op = "list" /\ resp.status = 200
    /\ Len(resp.conversations) = 2
    /\ \E i \in 1..2 : /\ Len(resp.conversations[i].title) = TitleLen
                        /\ Len(FirstUserLine(Stored(session[resp.sess].username)[i].messages))
                              > TitleLen
    /\ \E i \in 1..2 : resp.conversations[i].title = DefaultTitle

\* the reply is no model list: the request failed, or the body has an entry
\* of 'data' that is not an object
NoModelList(r) ==
    r.kind = "error" \/ (r.kind = "data" /\ \E i \in 1..Len(r.body) : ~r.body[i].dict)

\* the identifiers a reply lists: id, else name, of the entries of 'data' that
\* have one, or the bare array
Listed(r) ==
    IF r.kind = "array" THEN r.body
    ELSE LET named == SelectSeq(r.body, LAMBDA e : e.id # "" \/ e.name # "")
         IN [i \in 1..Len(named) |->
                IF named[i].id # "" THEN named[i].id ELSE named[i].name]

\* what a response of list_models says about the attempts made
ModelsAnswer ==
    resp.op = "models" =>
        /\ resp.calls \in {<<PrimaryPath>>, <<PrimaryPath, SecondaryPath>>}
        /\ Len(resp.replies) = Len(resp.calls)
        /\ Len(resp.calls) = 2 <=> NoModelList(resp.replies[1])
        /\ resp.status = 500 <=> \A i \in 1..Len(resp.replies) : NoModelList(resp.replies[i])
        /\ resp.status = 500 => resp.error # ""
        /\ resp.status # 500 =>
              /\ resp.status = 200
              /\ resp.models = Listed(resp.replies[Len(resp.replies)])

(* C12: list_models queries the primary path first and the secondary path   *)
(* only after the primary attempt failed, each at most once; it answers the *)
(* hard error exactly when both attempts failed, otherwise the model list   *)
(* of the first attempt that succeeded; it changes neither the Working      *)
(* Transcript nor the session pointers nor the user store.                  *)
C12_ListModels ==
    /\ []ModelsAnswer
    /\ [](req.phase = "MODELS_PRIMARY" => req.calls = <<PrimaryPath>>)
    /\ [](req.phase = "MODELS_SECONDARY" =>
             req.calls = <<PrimaryPath, SecondaryPath>> /\ NoModelList(req.replies[1]))
    /\ [][\/ req.phase \in {"MODELS_PRIMARY", "MODELS_SECONDARY"}
          \/ req'.phase \in {"MODELS_PRIMARY", "MODELS_SECONDARY"}
          => NoEffect]_vars

\* the secondary path gave the list after the primary answer had a malformed
\* entry, while a conversation was stored and loaded
C12_Witness ==
    /\ resp.op = "models" /\ resp.status = 200
    /\ resp.calls = <<PrimaryPath, SecondaryPath>>
    /\ resp.replies[1].kind = "data"
    /\ resp.models = <<"m1", "m2">>
    /\ conversation_history # <<>>
    /\ PointsAtStored(resp.sess)

\* the handler of t is about to write a list it loaded before another handler
\* wrote the file
WritesStale(t) ==
    /\ race_update_save(t)
    /\ users_file # json_dump(handler[t].users)

\* the two handlers have answered creates of one user and read the same
\* document when they looked the user up
InterleavedCreates(s, t) ==
    /\ s # t
    /\ handler[s].pc = "done" /\ handler[t].pc = "done"
    /\ handler[s].op = "create" /\ handler[t].op = "create"
    /\ handler[s].user.username = handler[t].user.username
    /\ handler[s].seen = handler[t].seen

(* C13: when a mutating request (create, or the persistence step of chat)   *)
(* writes a collection it loaded before another request wrote the file, the *)
(* store afterwards holds the writer's copy of its own record and every     *)
(* other record as the writer loaded it: what the other request wrote is    *)
(* gone.  Two creates of one user that both read the user before either     *)
(* wrote return the same index, and the user has gained one conversation.   *)
C13_LostUpdate ==
    /\ [][\A t \in Sessions :
            WritesStale(t) =>
               LET loaded == json_dump(handler[t].users)
                   own == handler[t].user.username
               IN /\ ConversationsIn(users_file', own) = handler[t].user.conversations
                  /\ \A v \in Usernames \ {own} :
                        /\ UserIn(users_file', v) <=> UserIn(loaded, v)
                        /\ UserIn(loaded, v) =>
                              ConversationsIn(users_file', v) = ConversationsIn(loaded, v)
         ]_vars
    /\ [](\A s, t \in Sessions :
            InterleavedCreates(s, t) =>
               /\ handler[s].id = handler[t].id
               /\ Len(Stored(handler[t].user.username)) =
                      Len(ConversationsIn(handler[t].seen, handler[t].user.username)) + 1
               /\ handler[t].id = Len(Stored(handler[t].user.username)) - 1)

\* two creates of one user were interleaved and answered the same index
C13_Witness ==
    \E s, t \in Sessions :
       /\ InterleavedCreates(s, t)
       /\ handler[s].id = handler[t].id

\* the conversations stored for username after the step
StoredAfter(username) == ConversationsIn(users_file', username)

\* the step changes nothing of the sessions but the pointer of s, set to index
OnlyPointerSet(s, index) ==
    session' = [session EXCEPT ![s].current_conversation = index]

(* C14: a select of a stored user with a valid index succeeds; a successful *)
(* select makes the Working Transcript equal to the stored messages of      *)
(* conversations[index], sets current_conversation of the session to index  *)
(* and leaves the user store unchanged.                                     *)
C14_SelectEffects ==
    [][resp'.op = "select" =>
       \A s \in Sessions, i \in Indexes :
          api_get_conversation(s, i) =>
             /\ (Persistable(s) /\ 0 <= i /\ i < Len(Stored(session[s].username)))
                   => resp'.status = 200
             /\ resp'.status = 200 =>
                   /\ Persistable(s) /\ 0 <= i /\ i < Len(Stored(session[s].username))
                   /\ conversation_history' = Stored(session[s].username)[i + 1].messages
                   /\ resp'.messages = conversation_history'
                   /\ OnlyPointerSet(s, i)
                   /\ users_file' = users_file]_vars

\* an empty conversation was selected while the other one of the user holds
\* a transcript: nothing of a transcript is left in the history
C14_Witness ==
    /\ resp.op = "select" /\ resp.status = 200 /\ resp.arg = 0
    /\ conversation_history = <<>>
    /\ Len(Stored(session[resp.sess].username)) = 2
    /\ Stored(session[resp.sess].username)[2].messages # <<>>

(* C15: create of a stored user appends one empty conversation to the end   *)
(* of the user's sequence in the store, returns the number of conversations *)
(* the user had before, leaves the Working Transcript empty, sets           *)
(* current_conversation of the session to the returned index and leaves the *)
(* conversations the user had unchanged at their indices.                   *)
C15_CreateEffects ==
    [][resp'.op = "create" =>
       \A s \in Sessions :
          api_new_chat(s) /\ Persistable(s) =>
             LET before == Stored(session[s].username)
                 after == StoredAfter(session[s].username)
             IN /\ resp'.status = 200
                /\ resp'.id = Len(before)
                /\ Len(after) = Len(before) + 1
                /\ after[Len(after)].messages = <<>>
                /\ \A i \in 1..Len(before) : after[i] = before[i]
                /\ conversation_history' = <<>>
                /\ OnlyPointerSet(s, resp'.id)]_vars

\* a second conversation was created while a transcript was loaded, and the
\* first one still holds its transcript
C15_Witness ==
    /\ resp.op = "create" /\ resp.status = 200 /\ resp.id = 1
    /\ conversation_history = <<>>
    /\ Len(Stored(session[resp.sess].username)) = 2
    /\ Len(Stored(session[resp.sess].username)[1].messages) >= 3
    /\ Stored(session[resp.sess].username)[2].messages = <<>>

(* C16: a chat of a stored user sent with current_conversation unset        *)
(* allocates exactly one conversation, at the index equal to the user's     *)
(* conversation count, sets the pointer to it and writes the transcript     *)
(* there, the earlier conversations unchanged; sent with the pointer set it *)
(* allocates nothing and changes only conversations[current_conversation].  *)
C16_ChatAllocation ==
    [][resp'.op = "chat" /\ resp'.status = 200 =>
       \A s \in Sessions :
          (\E p \in ChatPayloads, u \in Upstreams : chat(s, p[1], p[2], u[1], u[2]))
          /\ Persistable(s) =>
             LET before == Stored(session[s].username)
                 after == StoredAfter(session[s].username)
             IN IF Pointer(s) = Unset
                THEN /\ Len(after) = Len(before) + 1
                     /\ OnlyPointerSet(s, Len(before))
                     /\ after[Len(after)].messages = conversation_history'
                     /\ \A i \in 1..Len(before) : after[i] = before[i]
                ELSE /\ Len(after) = Len(before)
                     /\ session' = session
                     /\ \A i \in 1..Len(before) :
                           i # Pointer(s) + 1 => after[i] = before[i]]_vars

(* C20: the current_conversation of a session that names a stored user is   *)
(* unset or an index of one of that user's stored conversations.            *)
C20_PointerValid ==
    \A s \in Sessions :
       Persistable(s) =>
          \/ Pointer(s) = Unset
          \/ 0 <= Pointer(s) /\ Pointer(s) < Len(Stored(session[s].username))

\* msgs is empty, or a system turn followed by (user, assistant) pairs
WellShaped(msgs) ==
    msgs # <<>> =>
       /\ Len(msgs) % 2 = 1
       /\ msgs[1].role = "system"
       /\ \A i \in 2..Len(msgs) :
             msgs[i].role = IF i % 2 = 0 THEN "user" ELSE "assistant"

\* the number of system turns of msgs
SystemTurns(msgs) == Cardinality({i \in 1..Len(msgs) : msgs[i].role = "system"})

(* C17: chat appends a system turn exactly when the Working Transcript is   *)
(* empty at the start of the request; with requests served one at a time,   *)
(* the Working Transcript and every stored conversation is empty or one     *)
(* system turn followed by (user, assistant) pairs.                         *)
C17_SystemTurn ==
    /\ [][resp'.op = "chat" /\ resp'.status = 200 =>
            /\ SystemTurns(conversation_history') =
                  SystemTurns(conversation_history)
                     + (IF conversation_history = <<>> THEN 1 ELSE 0)
            /\ Len(conversation_history') =
                  Len(conversation_history)
                     + (IF conversation_history = <<>> THEN 3 ELSE 2)
            /\ IsPrefix(conversation_history, conversation_history')]_vars
    /\ [](/\ WellShaped(conversation_history)
          /\ \A u \in Usernames :
                UserIn(users_file, u) =>
                   \A i \in 1..Len(Stored(u)) : WellShaped(Stored(u)[i].messages))

\* a stored conversation of two turns, after a chat into a loaded transcript
C17_Witness ==
    /\ resp.op = "chat" /\ resp.status = 200
    /\ PointsAtStored(resp.sess)
    /\ Len(Current(resp.sess)) = 5
    /\ SystemTurns(Current(resp.sess)) = 1

\* the upstream calls a chat turn has made, by phase: none before the primary
\* request, the primary one while it is awaited, and afterwards the legacy
\* one as well exactly if the primary call failed
TurnCalls ==
    /\ req.phase \in {"IDLE", "TRANSCRIPT_APPENDED_USER"} => req.calls = <<>>
    /\ req.phase = "AWAIT_PRIMARY" => req.calls = <<"primary">>
    /\ req.phase \in {"AWAIT_LEGACY", "SUCCESS", "FAILURE",
                      "TRANSCRIPT_APPENDED_ASSISTANT", "PERSISTED"} =>
          /\ Len(req.replies) = 1
          /\ req.calls = IF req.replies[1].ok THEN <<"primary">>
                         ELSE <<"primary", "legacy">>

(* C18: in a chat turn the legacy endpoint is contacted if and only if the  *)
(* primary attempt failed, and each endpoint at most once: the calls of a   *)
(* turn are the primary one, or the primary one followed by the legacy one, *)
(* and nothing is called after the legacy attempt.                          *)
C18_Fallback ==
    /\ []TurnCalls
    /\ [][req'.calls # req.calls =>
            \/ req'.phase = "IDLE" /\ req'.calls = <<>>
            \/ /\ Len(req'.calls) = Len(req.calls) + 1
               /\ IsPrefix(req.calls, req'.calls)
               /\ req.phase # "AWAIT_LEGACY"]_vars

\* a turn answered by the legacy endpoint after the primary one failed
C18_Witness ==
    /\ req.phase = "PERSISTED"
    /\ req.calls = <<"primary", "legacy">>
    /\ req.error = "" /\ req.first_error # ""

(* C19: every user turn stored in a conversation of user U was sent by a    *)
(* session logged in as U.  Each browser sends its user's name as message,  *)
(* so the content of a stored user turn tells who sent it.                  *)
C19_Isolation ==
    \A u \in Usernames :
       UserIn(users_file, u) =>
          \A i \in 1..Len(Stored(u)) :
             \A k \in 1..Len(Stored(u)[i].messages) :
                Stored(u)[i].messages[k].role = "user" =>
                   Stored(u)[i].messages[k].content = <<u>>

\* the step is a list, select, create or chat request that has been answered
ManagerStep == resp'.op \in {"list", "select", "create", "chat"}

\* the step allocates for username: a create, or a chat of a session whose
\* pointer is unset
AllocatesFor(username) ==
    /\ resp'.status = 200
    /\ session[resp'.sess].username = username
    /\ \/ resp'.op = "create"
       \/ resp'.op = "chat" /\ Pointer(resp'.sess) = Unset

(* C21: for a user stored before and after, a list, select, create or chat  *)
(* request never decreases the number of stored conversations; a stored     *)
(* conversation stays at its index, and only the one a chat writes to       *)
(* changes; the count grows by one on a create or a chat with an unset      *)
(* pointer of that user, and not at all otherwise.                          *)
C21_IndexStability ==
    [][ManagerStep =>
       \A u \in Usernames :
          UserIn(users_file, u) /\ UserIn(users_file', u) =>
             LET before == Stored(u)
                 after == StoredAfter(u)
             IN /\ Len(after) >= Len(before)
                /\ Len(after) = Len(before) + (IF AllocatesFor(u) THEN 1 ELSE 0)
                /\ \A i \in 1..Len(before) :
                      i <= Len(after) /\ after[i] # before[i] =>
                         /\ resp'.op = "chat"
                         /\ session'[resp'.sess].username = u
                         /\ session'[resp'.sess].current_conversation = i - 1]_vars

\* the step is a create or a chat that writes the record of a stored user
Mutation ==
    /\ resp'.op \in {"create", "chat"} /\ resp'.status = 200
    /\ Persistable(resp'.sess)

(* C22: with requests served one at a time, a create or the persistence     *)
(* step of a chat of user U writes the whole list but changes only the      *)
(* record of U: every other record is the same before and after, at the     *)
(* same place; the usernames are the same, and no username is stored twice. *)
C22_MutationFrame ==
    [][Mutation =>
       LET own == session[resp'.sess].username
           before == load_users
           after == json_load(users_file')
       IN /\ Len(after) = Len(before)
          /\ \A i \in 1..Len(before) :
                /\ after[i].username = before[i].username
                /\ before[i].username # own => after[i] = before[i]
                /\ before[i].username = own =>
                      /\ after[i].password_hash = before[i].password_hash
                      /\ after[i].role = before[i].role
          /\ \A i, j \in 1..Len(after) :
                after[i].username = after[j].username => i = j]_vars

\* bob's chat was stored while admin has a stored transcript of its own
C22_Witness ==
    /\ resp.op = "chat" /\ resp.status = 200
    /\ session[resp.sess].username = "bob"
    /\ PointsAtStored(resp.sess)
    /\ Current(resp.sess) # <<>>
    /\ Len(Stored("admin")) = 1
    /\ Stored("admin")[1].messages # <<>>

====
